---- MODULE Spec2Model ----
(***************************************************************************)
(* Model of the RPG combat engine (src/rpg_game): Character / Boss attack  *)
(* resolution, the Inventory, and the Game.combat loop with its driver     *)
(* Game.handle_boss_battles.                                               *)
(*                                                                         *)
(* Units.  Python floats are represented by integers:                      *)
(*   - probabilities (crit_chance, the boss bonus chance, random.random()) *)
(*     are counted in twentieths: 0.1 = 2, 0.2 = 4, 0.25 = 5, 1.0 = 20;    *)
(*   - crit multipliers are counted in halves: 1.0 = 2, 1.5 = 3, 2.0 = 4.  *)
(* Every float the program itself uses is exact in these units.            *)
(***************************************************************************)
EXTENDS Integers, Sequences, FiniteSets, TLC

VARIABLES
    ent,    \* entity id -> Character object (name, _health, _damage, weapon bonus, crit fields, boss flag)
    inv,    \* inventory id -> Inventory object (max_slots, items, gold)
    pc,     \* position of the running driver (Game.run / Game.combat), or "unit" for API-level runs
    cur,    \* index in Game.bosses of the boss being fought (id of the enemy in combat)
    last,   \* the last operation performed and what it returned (observation only)
    calls   \* number of add_item / add_gold / reward calls made on the inventory under test

vars == <<ent, inv, pc, cur, last, calls>>

(***************************************************************************)
(* Bounds of the model (inputs drawn from small sets).                     *)
(***************************************************************************)
MaxHealth == 9      \* constructor / set_health inputs range over -1 .. MaxHealth
MaxDamage == 2      \* base damage inputs range over 0 .. MaxDamage
MaxBonus == 1       \* weapon bonus inputs range over 0 .. MaxBonus

(***************************************************************************)
(* Program constants.                                                      *)
(***************************************************************************)
DEFAULT_CRIT_CHANCE == 2        \* crit_chance = 0.1 (twentieths)
DEFAULT_CRIT_MULTIPLIER == 3    \* crit_multiplier = 1.5 (halves)
BOSS_WEAPON_BONUS == 5          \* weapon_damage_bonus = 5
BOSS_CRIT_CHANCE == 5           \* crit_chance = 0.25 (twentieths)
BOSS_CRIT_MULTIPLIER == 4       \* crit_multiplier = 2.0 (halves)
BOSS_BONUS_CHANCE == 4          \* random.random() < 0.2 (twentieths)
DEFAULT_MAX_SLOTS == 10         \* Inventory(max_slots = 10)

Max(a, b) == IF a >= b THEN a ELSE b
Min(a, b) == IF a <= b THEN a ELSE b

\* Values random.random() can return: samples of [0.0, 1.0) in twentieths, on
\* both sides of every threshold the program compares a roll with.
Rolls == {0, 2, 4, 5, 19}

\* Variant of the product that truncates after halving the multiplier's
\* unit once more (the multiplier read in quarters).
IntTimes_quarters(base_damage, mult) == (base_damage * mult) \div 4

\* int(base_damage * crit_multiplier): the product of an int and a float,
\* truncated toward zero (multiplier in halves).
IntTimes(base_damage, mult) ==
    IF base_damage * mult >= 0
    THEN (base_damage * mult) \div 2
    ELSE -((-(base_damage * mult)) \div 2)

(***************************************************************************)
(* Inventory.__init__                                                      *)
(***************************************************************************)
Inventory_init(max_slots) ==
    [max_slots |-> max_slots, items |-> <<>>, gold |-> 0]

(***************************************************************************)
\* Variant of Character.__init__ that stores the crit parameters as given.
Character_init_noclamp(name, health, damage, weapon_damage_bonus, crit_chance, crit_multiplier) ==
    [ name            |-> name,
      health          |-> health,
      damage          |-> damage,
      bonus           |-> weapon_damage_bonus,
      crit_chance     |-> crit_chance,
      crit_multiplier |-> crit_multiplier,
      boss            |-> FALSE ]

(***************************************************************************)
(* Character.__init__ : health and damage are stored as given, the crit    *)
(* parameters are clamped.                                                 *)
(***************************************************************************)
Character_init(name, health, damage, weapon_damage_bonus, crit_chance, crit_multiplier) ==
    [ name            |-> name,
      health          |-> health,
      damage          |-> damage,
      bonus           |-> weapon_damage_bonus,
      crit_chance     |-> Min(Max(crit_chance, 0), 20),
      crit_multiplier |-> Max(crit_multiplier, 2),
      boss            |-> FALSE ]

(***************************************************************************)
(* Boss.__init__                                                           *)
(***************************************************************************)
Boss_init(name, health, damage) ==
    [ Character_init(name, health, damage, BOSS_WEAPON_BONUS,
                     BOSS_CRIT_CHANCE, BOSS_CRIT_MULTIPLIER)
      EXCEPT !.boss = TRUE ]

\* Variant of set_health that stores the value without the floor at zero.
set_health_unfloored(c, new_health) ==
    [c EXCEPT !.health = new_health]

(***************************************************************************)
(* Character.set_health                                                    *)
(***************************************************************************)
set_health(c, new_health) ==
    [c EXCEPT !.health = IF new_health < 0 THEN 0 ELSE new_health]

(***************************************************************************)
(* The logger argument of attack: "none" (no logger passed), "ok" (a       *)
(* logger whose log_combat returns) or "fails" (a logger whose log_combat  *)
(* raises).  log_combat is the list of events one call hands to the        *)
(* logger: (attacker, defender, damage, is_critical).                      *)
(***************************************************************************)
Loggers == {"none", "ok", "fails"}

log_combat(logger, a, t, damage, is_critical) ==
    IF logger = "ok"
    THEN << [who |-> a, tgt |-> t, total |-> damage, crit |-> is_critical] >>
    ELSE << >>

\* Variant of Character.attack in which a critical hit also costs the
\* attacker one point of health.
Character_attack_recoil(E, a, t, r, logger) ==
    LET base_damage  == E[a].damage + E[a].bonus
        is_critical  == r < E[a].crit_chance
        total_damage == IF is_critical
                        THEN IntTimes(base_damage, E[a].crit_multiplier)
                        ELSE base_damage
        hit          == [E EXCEPT ![t] = set_health(E[t], E[t].health - total_damage)]
    IN [ ent   |-> IF is_critical
                   THEN [hit EXCEPT ![a] = set_health(hit[a], hit[a].health - 1)]
                   ELSE hit,
         total |-> total_damage,
         crit  |-> is_critical,
         proc  |-> FALSE,
         log   |-> log_combat(logger, a, t, total_damage, is_critical),
         out   |-> IF logger = "fails" THEN "raised" ELSE "returned" ]

\* Variant of Character.attack whose critical test is r <= crit_chance.
Character_attack_le(E, a, t, r, logger) ==
    LET base_damage  == E[a].damage + E[a].bonus
        is_critical  == r <= E[a].crit_chance
        total_damage == IF is_critical
                        THEN IntTimes(base_damage, E[a].crit_multiplier)
                        ELSE base_damage
    IN [ ent   |-> [E EXCEPT ![t] = set_health(E[t], E[t].health - total_damage)],
         total |-> total_damage,
         crit  |-> is_critical,
         proc  |-> FALSE,
         log   |-> log_combat(logger, a, t, total_damage, is_critical),
         out   |-> IF logger = "fails" THEN "raised" ELSE "returned" ]

\* Variant of Character.attack that reports a critical hit but forgets the multiplier.
Character_attack_nomult(E, a, t, r, logger) ==
    LET base_damage  == E[a].damage + E[a].bonus
        is_critical  == r < E[a].crit_chance
    IN [ ent   |-> [E EXCEPT ![t] = set_health(E[t], E[t].health - base_damage)],
         total |-> base_damage,
         crit  |-> is_critical,
         proc  |-> FALSE,
         log   |-> log_combat(logger, a, t, base_damage, is_critical),
         out   |-> IF logger = "fails" THEN "raised" ELSE "returned" ]

(***************************************************************************)
(* Character.attack : E is the entity map, a attacks t, r is the value of  *)
(* random.random().  Returns the new entity map and (total, is_critical),  *)
(* the events logged, and out = "returned", or "raised" when log_combat    *)
(* raised (after set_health, before the return statement).                 *)
(***************************************************************************)
Character_attack(E, a, t, r, logger) ==
    LET base_damage  == E[a].damage + E[a].bonus
        is_critical  == r < E[a].crit_chance
        total_damage == IF is_critical
                        THEN IntTimes(base_damage, E[a].crit_multiplier)
                        ELSE base_damage
    IN [ ent   |-> [E EXCEPT ![t] = set_health(E[t], E[t].health - total_damage)],
         total |-> total_damage,
         crit  |-> is_critical,
         proc  |-> FALSE,
         log   |-> log_combat(logger, a, t, total_damage, is_critical),
         out   |-> IF logger = "fails" THEN "raised" ELSE "returned" ]

\* Variant of Boss.attack whose bonus is half of base damage plus weapon bonus.
Boss_attack_weaponbonus(E, a, t, r, r2, logger) ==
    LET base         == Character_attack(E, a, t, r, logger)
        bonus_damage == (E[a].damage + E[a].bonus) \div 2
    IN IF base.out = "raised" THEN base
       ELSE IF r2 < BOSS_BONUS_CHANCE
       THEN [ ent   |-> [base.ent EXCEPT
                           ![t] = set_health(base.ent[t], base.ent[t].health - bonus_damage)],
              total |-> base.total + bonus_damage,
              crit  |-> base.crit,
              proc  |-> TRUE,
              log   |-> base.log \o log_combat(logger, a, t, base.total + bonus_damage,
                                               base.crit),
              out   |-> "returned" ]
       ELSE base

(***************************************************************************)
(* Boss.attack : super().attack (which logs), then with chance 0.2 (roll   *)
(* r2) a second subtraction of self._damage // 2 and a second log_combat   *)
(* call with damage + bonus_damage.                                        *)
(***************************************************************************)
Boss_attack(E, a, t, r, r2, logger) ==
    LET base         == Character_attack(E, a, t, r, logger)
        bonus_damage == E[a].damage \div 2
    IN IF base.out = "raised" THEN base
       ELSE IF r2 < BOSS_BONUS_CHANCE
       THEN [ ent   |-> [base.ent EXCEPT
                           ![t] = set_health(base.ent[t], base.ent[t].health - bonus_damage)],
              total |-> base.total + bonus_damage,
              crit  |-> base.crit,
              proc  |-> TRUE,
              log   |-> base.log \o log_combat(logger, a, t, base.total + bonus_damage,
                                               base.crit),
              out   |-> "returned" ]
       ELSE base

\* Dynamic dispatch of attack() on the attacker's class.
attack(E, a, t, r, r2, logger) ==
    IF E[a].boss THEN Boss_attack(E, a, t, r, r2, logger)
                 ELSE Character_attack(E, a, t, r, logger)

\* The record kept in `last` after an attack by a on t.
AttackObs(E, a, t, res) ==
    [ op |-> "attack", who |-> a, tgt |-> t, before |-> E[t].health,
      total |-> res.total, crit |-> res.crit, proc |-> res.proc, out |-> res.out,
      arg |-> "", logged |-> res.log ]

NoObs ==
    [ op |-> "none", who |-> 0, tgt |-> 0, before |-> 0,
      total |-> 0, crit |-> FALSE, proc |-> FALSE, out |-> "", arg |-> "",
      logged |-> << >> ]

(***************************************************************************)
(* Items: Item (base class), Potion, Key.  cls is the Python class.        *)
(***************************************************************************)
Item(name) == [cls |-> "Item", name |-> name, heal_amount |-> 0]
Potion(name, heal_amount) == [cls |-> "Potion", name |-> name, heal_amount |-> heal_amount]
Key(name) == [cls |-> "Key", name |-> name, heal_amount |-> 0]

\* str.lower() on the item names the model uses.
lower(s) ==
    CASE s = "Health Potion"         -> "health potion"
      [] s = "HEALTH POTION"         -> "health potion"
      [] s = "Greater Health Potion" -> "greater health potion"
      [] s = "Rusty Key"             -> "rusty key"
      [] s = "Ancient Key"           -> "ancient key"
      [] s = "Scroll"                -> "scroll"
      [] OTHER                       -> s

\* The sequence s without its i-th element (list.pop(i) / list.remove).
RemoveAt(s, i) == [ j \in 1 .. (Len(s) - 1) |-> IF j < i THEN s[j] ELSE s[j + 1] ]

\* Variant of Inventory.add_item whose capacity test is <= instead of <.
Inventory_add_item_le(I, item) ==
    IF Len(I.items) <= I.max_slots
    THEN [inv |-> [I EXCEPT !.items = Append(I.items, item)], ret |-> TRUE]
    ELSE [inv |-> I, ret |-> FALSE]

\* Variant of Inventory.add_item that inserts the item at the front.
Inventory_add_item_front(I, item) ==
    IF Len(I.items) < I.max_slots
    THEN [inv |-> [I EXCEPT !.items = <<item>> \o I.items], ret |-> TRUE]
    ELSE [inv |-> I, ret |-> FALSE]

(***************************************************************************)
(* Inventory.add_item                                                      *)
(***************************************************************************)
Inventory_add_item(I, item) ==
    IF Len(I.items) < I.max_slots
    THEN [inv |-> [I EXCEPT !.items = Append(I.items, item)], ret |-> TRUE]
    ELSE [inv |-> I, ret |-> FALSE]

(***************************************************************************)
(* Inventory.add_gold / Inventory.remove_gold                              *)
(***************************************************************************)
Inventory_add_gold(I, amount) == [I EXCEPT !.gold = I.gold + amount]

\* Variant of Inventory.remove_gold whose test is > instead of >=.
Inventory_remove_gold_gt(I, amount) ==
    IF I.gold > amount
    THEN [inv |-> [I EXCEPT !.gold = I.gold - amount], ret |-> TRUE]
    ELSE [inv |-> I, ret |-> FALSE]

\* Variant of Inventory.remove_gold without the sufficiency test.
Inventory_remove_gold_unguarded(I, amount) ==
    [inv |-> [I EXCEPT !.gold = I.gold - amount], ret |-> TRUE]

Inventory_remove_gold(I, amount) ==
    IF I.gold >= amount
    THEN [inv |-> [I EXCEPT !.gold = I.gold - amount], ret |-> TRUE]
    ELSE [inv |-> I, ret |-> FALSE]

(***************************************************************************)
(* Item.use / Potion.use : Potion.use returns its message; Item.use (which *)
(* Key inherits) reads self.name, an attribute no Item has, and raises     *)
(* AttributeError.                                                         *)
(***************************************************************************)
use(item) == IF item.cls = "Potion" THEN "used" ELSE "AttributeError"

(***************************************************************************)
(* Inventory.remove_item : the scan reads item.name, an attribute no Item  *)
(* has, so the first element examined raises AttributeError; an empty list *)
(* returns None.                                                           *)
(***************************************************************************)
Inventory_remove_item(I, item_name) ==
    IF I.items = <<>>
    THEN [inv |-> I, out |-> "None"]
    ELSE [inv |-> I, out |-> "AttributeError"]

(***************************************************************************)
(* Inventory.use_item                                                      *)
(***************************************************************************)
Inventory_use_item(I, item_name) ==
    LET r == Inventory_remove_item(I, item_name)
    IN IF r.out = "None" THEN [inv |-> I, out |-> "not_found"] ELSE r

(***************************************************************************)
(* Character.use_item : first item whose lower-cased name equals the       *)
(* lower-cased argument; item.use(); a Potion is then removed.             *)
(***************************************************************************)
\* Variant of the search that falls back to the first item when nothing
\* matches.
FirstMatch_orfirst(items, item_name) ==
    LET hits == { i \in 1 .. Len(items) : lower(items[i].name) = lower(item_name) }
    IN IF hits = {} THEN (IF Len(items) > 0 THEN 1 ELSE 0)
       ELSE CHOOSE i \in hits : \A j \in hits : i <= j

FirstMatch(items, item_name) ==
    LET hits == { i \in 1 .. Len(items) : lower(items[i].name) = lower(item_name) }
    IN IF hits = {} THEN 0 ELSE CHOOSE i \in hits : \A j \in hits : i <= j

\* Variant of Character.use_item that leaves a used potion in the list.
Character_use_item_keeps(I, item_name) ==
    LET idx == FirstMatch(I.items, item_name)
    IN IF idx = 0 THEN [inv |-> I, out |-> "not_found", heal |-> 0]
       ELSE IF use(I.items[idx]) = "AttributeError"
            THEN [inv |-> I, out |-> "AttributeError", heal |-> 0]
            ELSE [inv |-> I, out |-> "used", heal |-> I.items[idx].heal_amount]

Character_use_item(I, item_name) ==
    LET idx == FirstMatch(I.items, item_name)
    IN IF idx = 0 THEN [inv |-> I, out |-> "not_found", heal |-> 0]
       ELSE IF use(I.items[idx]) = "AttributeError"
            THEN [inv |-> I, out |-> "AttributeError", heal |-> 0]
            ELSE IF I.items[idx].cls = "Potion"
                 THEN [inv |-> [I EXCEPT !.items = RemoveAt(I.items, idx)],
                       out |-> "used", heal |-> I.items[idx].heal_amount]
                 ELSE [inv |-> I, out |-> "used", heal |-> 0]

(***************************************************************************)
(* SpecAttack : two entities built by the constructors from arbitrary      *)
(* arguments (entity 0 a Character, entity 1 a Boss), then any sequence of *)
(* attack and set_health calls.                                            *)
(***************************************************************************)
HealthInputs == -1 .. MaxHealth
DamageInputs == 0 .. MaxDamage
BonusInputs == 0 .. MaxBonus
CritChanceInputs == {-1, 5, 21}
CritMultiplierInputs == {1, 3}

InitAttack ==
    /\ \E h0 \in HealthInputs, d0 \in DamageInputs, b0 \in BonusInputs,
          cc \in CritChanceInputs, cm \in CritMultiplierInputs,
          h1 \in HealthInputs, d1 \in DamageInputs :
          ent = [ i \in {0, 1} |->
                    IF i = 0 THEN Character_init("Hero", h0, d0, b0, cc, cm)
                             ELSE Boss_init("Test Boss", h1, d1) ]
    /\ inv = [ i \in {0, 1} |-> Inventory_init(DEFAULT_MAX_SLOTS) ]
    /\ pc = "unit"
    /\ cur = 1
    /\ last = NoObs
    /\ calls = 0

\* a.attack(t) for two distinct entities.
DoAttack ==
    \E a \in DOMAIN ent, t \in DOMAIN ent, r \in Rolls :
      \E r2 \in IF ent[a].boss THEN Rolls ELSE {0} :
        /\ pc \in {"unit", "character"}
        /\ a # t
        /\ LET res == attack(ent, a, t, r, r2, "ok")
           IN /\ ent' = res.ent
              /\ last' = AttackObs(ent, a, t, res)
        /\ UNCHANGED <<inv, pc, cur, calls>>

\* c.set_health(new_health)
DoSetHealth ==
    \E c \in DOMAIN ent, h \in HealthInputs :
        /\ pc = "unit"
        /\ ent' = [ent EXCEPT ![c] = set_health(ent[c], h)]
        /\ last' = [NoObs EXCEPT !.op = "set_health", !.who = c, !.tgt = c]
        /\ UNCHANGED <<inv, pc, cur, calls>>

NextAttack == DoAttack \/ DoSetHealth

SpecAttack == InitAttack /\ [][NextAttack]_vars

(***************************************************************************)
(* Properties of attack resolution (checked under SpecAttack).             *)
(***************************************************************************)
LastIsAttack == last.op = "attack"
Attacker == ent[last.who]
Target == ent[last.tgt]
\* base_damage of the last attacker: base damage plus weapon bonus
BaseOf(c) == c.damage + c.bonus
\* floor(base_damage * crit_multiplier), multiplier in halves
FloorCrit(c) == (BaseOf(c) * c.crit_multiplier) \div 2

\* C1: in every reachable state every entity's health is >= 0, from
\* construction onward.
C1_HealthNeverNegative == \A e \in DOMAIN ent : ent[e].health >= 0

\* C2: after a non-boss attack returning (total, wasCritical) the target's
\* health is max(0, health before - total); a target already at 0 stays at 0.
C2_DamageApplied ==
    (LastIsAttack /\ ~Attacker.boss) =>
        /\ Target.health = Max(0, last.before - last.total)
        /\ (last.before = 0 => Target.health = 0)

C2_Witness ==
    /\ LastIsAttack /\ ~Attacker.boss
    /\ last.before = 0 /\ last.total > 0 /\ Target.health = 0

C2_WitnessHit ==
    /\ LastIsAttack /\ ~Attacker.boss
    /\ last.total > 0 /\ last.before > last.total /\ Target.health > 0

\* C3: with critChance 0.0 every non-boss attack is non-critical and deals
\* exactly baseDamage + weapon bonus.
C3_NonCriticalIdentity ==
    (LastIsAttack /\ ~Attacker.boss /\ Attacker.crit_chance = 0) =>
        /\ ~last.crit
        /\ last.total = Attacker.damage + Attacker.bonus

C3_Witness ==
    /\ LastIsAttack /\ ~Attacker.boss /\ Attacker.crit_chance = 0
    /\ Attacker.damage > 0 /\ Attacker.bonus > 0 /\ Attacker.crit_multiplier > 2
    /\ Target.health = last.before - last.total /\ Target.health > 0

BossBaseTotal == IF last.crit THEN FloorCrit(Attacker) ELSE BaseOf(Attacker)
BossBonus == Attacker.damage \div 2

C5_BossBonus ==
    (LastIsAttack /\ Attacker.boss) =>
        /\ last.proc =>
              /\ last.total = BossBaseTotal + BossBonus
              /\ Target.health = Max(0, Max(0, last.before - BossBaseTotal) - BossBonus)
        /\ ~last.proc =>
              /\ last.total = BossBaseTotal
              /\ Target.health = Max(0, last.before - BossBaseTotal)

C5_Witness ==
    /\ LastIsAttack /\ Attacker.boss /\ last.proc /\ ~last.crit
    /\ BossBonus > 0 /\ Target.health > 0
    /\ Target.health = last.before - BossBaseTotal - BossBonus

C5_WitnessCrit ==
    /\ LastIsAttack /\ Attacker.boss /\ last.proc /\ last.crit
    /\ BossBonus > 0 /\ last.before > 0 /\ Target.health = 0

(***************************************************************************)
(* Game : constants of rpg_game/constants.py and game.py.                  *)
(***************************************************************************)
PLAYER_INITIAL_HEALTH == 110
PLAYER_INITIAL_DAMAGE == 10
GOBLIN_KING_NAME == "Goblin King"
GOBLIN_KING_HEALTH == 50
GOBLIN_KING_DAMAGE == 8
DARK_SORCERER_NAME == "Dark Sorcerer"
DARK_SORCERER_HEALTH == 60
DARK_SORCERER_DAMAGE == 9
WEAPON_ROCK_DAMAGE == 2
WEAPON_PAPER_DAMAGE == 3
WEAPON_SCISSORS_DAMAGE == 4
HEAL_CAP == 100                 \* min(health + heal, 100) in handle_item_usage
GOBLIN_KING_GOLD == 50
OTHER_GOLD == 100

HealthPotion == Potion("Health Potion", 30)
GreaterHealthPotion == Potion("Greater Health Potion", 50)
RustyKey == Key("Rusty Key")
\* A potion whose name differs from the Health Potion's only by letter case.
UpperPotion == Potion("HEALTH POTION", 50)

P == 0      \* id of the player entity; the bosses are 1, 2, ... in list order

\* Positions inside Game.combat before it returns.
InCombat == {"enter", "menu", "select", "enemy", "exit"}

\* An observation carrying only the name of the step.
Obs(op) == [NoObs EXCEPT !.op = op]

\* Variant of the while condition with `or` in place of `and`.
LoopHead_or(E, e) ==
    IF E[P].health > 0 \/ E[e].health > 0 THEN "menu" ELSE "exit"

\* The while condition of Game.combat, evaluated at the head of the loop.
LoopHead(E, e) ==
    IF E[P].health > 0 /\ E[e].health > 0 THEN "menu" ELSE "exit"

\* Variant of the player's attack branch without `if enemy.get_health() <= 0: break`.
AfterPlayerAttack_nobreak(E, e) == "enemy"

\* After the player's attack: break when the enemy is down, else the enemy's turn.
AfterPlayerAttack(E, e) ==
    IF E[e].health <= 0 THEN "exit" ELSE "enemy"

\* Variant of the item / inventory branches without `continue`.
AfterFreeAction_nocontinue(E, e) == "enemy"

\* After "use item" or "check inventory": `continue`, back to the loop head.
AfterFreeAction(E, e) == LoopHead(E, e)

\* Game.combat is called: first evaluation of the while condition.
EnterCombat ==
    /\ pc = "enter"
    /\ pc' = LoopHead(ent, cur)
    /\ last' = Obs("enter")
    /\ UNCHANGED <<ent, inv, cur, calls>>

\* Menu choice "1": player.attack(enemy, logger).
PlayerAttack ==
    /\ pc = "menu"
    /\ \E r \in Rolls :
         \E r2 \in IF ent[P].boss THEN Rolls ELSE {0} :
           LET res == attack(ent, P, cur, r, r2, "ok")
           IN /\ ent' = res.ent
              /\ last' = AttackObs(ent, P, cur, res)
              /\ pc' = AfterPlayerAttack(res.ent, cur)
    /\ UNCHANGED <<inv, cur, calls>>

\* The enemy's turn: enemy.attack(player, logger), then the loop head.
EnemyAttack ==
    /\ pc = "enemy"
    /\ \E r \in Rolls :
         \E r2 \in IF ent[cur].boss THEN Rolls ELSE {0} :
           LET res == attack(ent, cur, P, r, r2, "ok")
           IN /\ ent' = res.ent
              /\ last' = AttackObs(ent, cur, P, res)
              /\ pc' = LoopHead(res.ent, cur)
    /\ UNCHANGED <<inv, cur, calls>>

\* Menu choice "2": handle_item_usage up to its prompt; an empty inventory
\* returns at once.
ChooseUseItem ==
    /\ pc = "menu"
    /\ IF inv[P].items = <<>>
       THEN /\ pc' = AfterFreeAction(ent, cur)
            /\ last' = Obs("no_items")
       ELSE /\ pc' = "select"
            /\ last' = Obs("list_items")
    /\ UNCHANGED <<ent, inv, cur, calls>>

\* Menu choice "3": display_inventory.
CheckInventory ==
    /\ pc = "menu"
    /\ pc' = AfterFreeAction(ent, cur)
    /\ last' = Obs("inventory")
    /\ UNCHANGED <<ent, inv, cur, calls>>

(***************************************************************************)
(* Game.handle_item_usage, the answer to its prompt: 0 cancels, an index   *)
(* of the list uses items[choice - 1] BY NAME through Character.use_item   *)
(* and heals by the selected item's amount, anything else asks again.      *)
(***************************************************************************)
SelectItem ==
    /\ pc = "select"
    /\ \E choice \in 0 .. (Len(inv[P].items) + 1) :
         IF choice = 0
         THEN /\ pc' = AfterFreeAction(ent, cur)
              /\ last' = Obs("cancel")
              /\ UNCHANGED <<ent, inv>>
         ELSE IF choice <= Len(inv[P].items)
         THEN LET item == inv[P].items[choice]
                  r    == Character_use_item(inv[P], item.name)
              IN IF r.out = "AttributeError"
                 THEN /\ pc' = "raised"
                      /\ last' = [Obs("use_item_raised") EXCEPT !.who = P, !.tgt = choice]
                      /\ UNCHANGED <<ent, inv>>
                 ELSE /\ inv' = [inv EXCEPT ![P] = r.inv]
                      /\ ent' = IF item.cls = "Potion"
                                THEN [ent EXCEPT ![P] =
                                        set_health(ent[P],
                                            Min(ent[P].health + item.heal_amount, HEAL_CAP))]
                                ELSE ent
                      /\ pc' = AfterFreeAction(ent', cur)
                      /\ last' = [Obs("use_item") EXCEPT !.who = P, !.tgt = choice,
                                                         !.before = ent[P].health,
                                                         !.total = item.heal_amount]
         ELSE /\ pc' = "select"
              /\ last' = Obs("invalid_choice")
              /\ UNCHANGED <<ent, inv>>
    /\ UNCHANGED <<cur, calls>>

\* Variant of print_victory_message that pays the reward to the defeated enemy.
Game_print_victory_message_toenemy(I, E, e) ==
    IF E[e].name = GOBLIN_KING_NAME
    THEN [ inv |-> [I EXCEPT ![e] =
                     Inventory_add_gold(Inventory_add_item(I[e], GreaterHealthPotion).inv,
                                        GOBLIN_KING_GOLD)],
           out |-> "ok" ]
    ELSE IF E[e].name = DARK_SORCERER_NAME
    THEN [ inv |-> I, out |-> "NameError" ]
    ELSE [ inv |-> [I EXCEPT ![e] = Inventory_add_gold(I[e], OTHER_GOLD)], out |-> "ok" ]

(***************************************************************************)
(* Game.print_victory_message : the reward goes to self.player.  game.py   *)
(* imports Potion but not Key, so the Dark Sorcerer branch raises          *)
(* NameError at Key(...) before anything is added.                         *)
(***************************************************************************)
Game_print_victory_message(I, E, e) ==
    IF E[e].name = GOBLIN_KING_NAME
    THEN [ inv |-> [I EXCEPT ![P] =
                     Inventory_add_gold(Inventory_add_item(I[P], GreaterHealthPotion).inv,
                                        GOBLIN_KING_GOLD)],
           out |-> "ok" ]
    ELSE IF E[e].name = DARK_SORCERER_NAME
    THEN [ inv |-> I, out |-> "NameError" ]
    ELSE [ inv |-> [I EXCEPT ![P] = Inventory_add_gold(I[P], OTHER_GOLD)], out |-> "ok" ]

\* After the loop of Game.combat: victory message and True, or defeat
\* message and False.
CombatReturn ==
    /\ pc = "exit"
    /\ IF ent[cur].health <= 0
       THEN LET v == Game_print_victory_message(inv, ent, cur)
            IN /\ inv' = v.inv
               /\ pc' = IF v.out = "ok" THEN "ret_true" ELSE "raised"
               /\ last' = Obs(IF v.out = "ok" THEN "victory" ELSE "victory_raised")
       ELSE IF ent[P].health <= 0
       THEN /\ pc' = "ret_false"
            /\ last' = Obs("defeat")
            /\ UNCHANGED inv
       ELSE /\ pc' = "ret_none"
            /\ last' = Obs("none")
            /\ UNCHANGED inv
    /\ UNCHANGED <<ent, cur, calls>>

(***************************************************************************)
(* SpecCombat : Game.combat(player, enemy) on an arbitrary player and      *)
(* Boss; the player may carry items.                                        *)
(***************************************************************************)
CombatHealths == {0, 1, MaxHealth}
BossNames == {GOBLIN_KING_NAME, DARK_SORCERER_NAME, "Test Boss"}
CombatItems ==
    { <<>>, <<HealthPotion>>, <<RustyKey, HealthPotion>>, <<HealthPotion, UpperPotion>> }

InitCombat ==
    /\ \E h0 \in CombatHealths, d0 \in DamageInputs, b0 \in BonusInputs,
          n1 \in BossNames, h1 \in CombatHealths, d1 \in DamageInputs :
          ent = [ i \in {0, 1} |->
                    IF i = 0
                    THEN Character_init("Hero", h0, d0, b0,
                                        DEFAULT_CRIT_CHANCE, DEFAULT_CRIT_MULTIPLIER)
                    ELSE Boss_init(n1, h1, d1) ]
    /\ \E its \in CombatItems :
          inv = [ i \in {0, 1} |->
                    IF i = 0
                    THEN [Inventory_init(DEFAULT_MAX_SLOTS) EXCEPT !.items = its]
                    ELSE Inventory_init(DEFAULT_MAX_SLOTS) ]
    /\ pc = "enter"
    /\ cur = 1
    /\ last = NoObs
    /\ calls = 0

NextCombat ==
    \/ EnterCombat
    \/ PlayerAttack
    \/ EnemyAttack
    \/ ChooseUseItem
    \/ CheckInventory
    \/ SelectItem
    \/ CombatReturn

SpecCombat == InitCombat /\ [][NextCombat]_vars

\* The synchronous loop runs every step that needs no input (weak fairness);
\* the player, shown the menu again and again, chooses the attack again and
\* again (strong fairness), and eventually gives the item prompt an answer
\* it accepts.
FairSpecCombat ==
    /\ SpecCombat
    /\ WF_vars(EnterCombat)
    /\ SF_vars(PlayerAttack)
    /\ WF_vars(EnemyAttack)
    /\ WF_vars(SelectItem /\ pc' # "select")
    /\ WF_vars(CombatReturn)

(***************************************************************************)
(* Spec : the whole game, Game.run = show_intro / setup_game, then         *)
(* handle_boss_battles over the two bosses.                                *)
(***************************************************************************)
WeaponChoices == {WEAPON_ROCK_DAMAGE, WEAPON_PAPER_DAMAGE, WEAPON_SCISSORS_DAMAGE}

\* Game.__init__ : no player, no bosses.
Init ==
    /\ ent = <<>>
    /\ inv = <<>>
    /\ pc = "setup"
    /\ cur = 0
    /\ last = NoObs
    /\ calls = 0

\* Game.setup_game : the player with the chosen weapon and a Health Potion,
\* then the list of bosses.
Game_setup_game ==
    /\ pc = "setup"
    /\ \E weapon_damage \in WeaponChoices :
         ent' = [ i \in 0 .. 2 |->
                    IF i = 0
                    THEN Character_init("Hero", PLAYER_INITIAL_HEALTH, PLAYER_INITIAL_DAMAGE,
                                        weapon_damage, DEFAULT_CRIT_CHANCE,
                                        DEFAULT_CRIT_MULTIPLIER)
                    ELSE IF i = 1
                    THEN Boss_init(GOBLIN_KING_NAME, GOBLIN_KING_HEALTH, GOBLIN_KING_DAMAGE)
                    ELSE Boss_init(DARK_SORCERER_NAME, DARK_SORCERER_HEALTH,
                                   DARK_SORCERER_DAMAGE) ]
    /\ inv' = [ i \in 0 .. 2 |->
                  IF i = 0
                  THEN Inventory_add_item(Inventory_init(DEFAULT_MAX_SLOTS), HealthPotion).inv
                  ELSE Inventory_init(DEFAULT_MAX_SLOTS) ]
    /\ pc' = "battles"
    /\ cur' = 0
    /\ last' = Obs("setup")
    /\ UNCHANGED calls

\* Game.handle_boss_battles, head of `for boss in self.bosses`: the next
\* boss is introduced and fought, or end_game(True) after the last one.
NextBoss ==
    /\ pc = "battles"
    /\ IF cur < 2
       THEN /\ cur' = cur + 1
            /\ pc' = "enter"
            /\ last' = Obs("introduce_boss")
       ELSE /\ cur' = cur
            /\ pc' = "end_won"
            /\ last' = Obs("end_game_won")
    /\ UNCHANGED <<ent, inv, calls>>

\* Variant of the loop body that goes on to the next boss after a loss.
AfterCombat_goeson ==
    /\ pc \in {"ret_true", "ret_false", "ret_none"}
    /\ pc' = "battles"
    /\ last' = Obs("combat_won")
    /\ UNCHANGED <<ent, inv, cur, calls>>

\* Game.handle_boss_battles, `if not self.combat(...)`: a true result goes on
\* with the loop, anything else is end_game(False).
AfterCombat ==
    /\ pc \in {"ret_true", "ret_false", "ret_none"}
    /\ IF pc = "ret_true"
       THEN /\ pc' = "battles"
            /\ last' = Obs("combat_won")
       ELSE /\ pc' = "end_lost"
            /\ last' = Obs("end_game_lost")
    /\ UNCHANGED <<ent, inv, cur, calls>>

\* Game.run : `except Exception` around the whole run.
CatchError ==
    /\ pc = "raised"
    /\ pc' = "error"
    /\ last' = Obs("error_reported")
    /\ UNCHANGED <<ent, inv, cur, calls>>

Next ==
    \/ Game_setup_game
    \/ NextBoss
    \/ EnterCombat
    \/ PlayerAttack
    \/ EnemyAttack
    \/ ChooseUseItem
    \/ CheckInventory
    \/ SelectItem
    \/ CombatReturn
    \/ AfterCombat
    \/ CatchError

Spec == Init /\ [][Next]_vars

(***************************************************************************)
(* Properties of the combat loop (checked under SpecCombat).               *)
(***************************************************************************)
\* The step just taken is an attack by entity a (every action records itself
\* in last, so in a step that changes the state last' describes that step).
AttackStepBy(a) == last'.op = "attack" /\ last'.who = a

\* C6: a player attack that brings the enemy's health to <= 0 ends the loop
\* at once as Won: the enemy makes no attack after it and the player's
\* health is what it was before the killing blow.
C6_KillingBlowEndsLoop ==
    [][ /\ (AttackStepBy(P) /\ ent'[cur].health <= 0) =>
              /\ pc' = "exit"
              /\ ent'[P].health = ent[P].health
        /\ (pc = "exit" /\ ent[cur].health <= 0) =>
              /\ ~AttackStepBy(cur)
              /\ ent'[P].health = ent[P].health
              /\ pc' \in {"ret_true", "raised"} ]_vars

C6_Witness ==
    /\ pc = "exit" /\ LastIsAttack /\ last.who = P
    /\ last.before > 0 /\ ent[cur].health = 0 /\ ent[P].health > 0

\* C7: the enemy attacks only directly after a player attack of the same
\* iteration; "use item" and "check inventory" never lead to an enemy attack.
C7_EnemyAttacksOnlyAfterPlayerAttack ==
    [][ /\ AttackStepBy(cur) => (pc = "enemy" /\ LastIsAttack /\ last.who = P)
        /\ (pc \in {"menu", "select"} /\ ~AttackStepBy(P)) => pc' # "enemy" ]_vars

C7_Witness ==
    /\ last.op = "use_item" /\ pc = "menu"
    /\ ent[P].health > 0 /\ ent[cur].health > 0

C7_WitnessEnemy ==
    /\ LastIsAttack /\ last.who = cur /\ pc = "menu"

\* C8: from positive health on both sides and positive damage on both
\* sides, the combat eventually reaches Won or Lost (the loop is left with
\* one side at health <= 0), the player choosing to attack again and again.
PositiveStart ==
    /\ pc = "enter"
    /\ ent[P].health > 0 /\ ent[cur].health > 0
    /\ BaseOf(ent[P]) > 0 /\ BaseOf(ent[cur]) > 0

WonOrLost == pc = "exit" /\ (ent[cur].health <= 0 \/ ent[P].health <= 0)

C8_CombatTerminates == PositiveStart ~> WonOrLost

\* The loop of Game.combat is left one way or another: by its condition or
\* by an exception.
LoopLeft == pc \in {"exit", "ret_true", "ret_false", "ret_none", "raised"}

CombatLeavesLoop == PositiveStart ~> LoopLeft

\* An exception can leave the loop while both sides still stand.
NoAbortWhileOngoing ==
    (pc = "raised") => (ent[cur].health <= 0 \/ ent[P].health <= 0)

\* C9: once a terminal state is reached (one side at health <= 0), nothing
\* of either entity changes before the outcome is returned.
Terminal == pc \in InCombat /\ (ent[cur].health <= 0 \/ ent[P].health <= 0)

C9_NoMutationAfterTerminal ==
    [][ Terminal => (ent' = ent /\ inv' = inv) ]_vars

\* C9 as amended: after a terminal state neither entity's health or stats and
\* nothing of the enemy's inventory change; the player's inventory changes
\* only by the victory reward of print_victory_message (at most the Greater
\* Health Potion appended, gold raised by 50 or 100), and not at all on a loss.
C9_OnlyVictoryReward ==
    [][ Terminal =>
          /\ ent' = ent
          /\ inv'[cur] = inv[cur]
          /\ inv'[P].max_slots = inv[P].max_slots
          /\ inv'[P].items \in {inv[P].items, Append(inv[P].items, GreaterHealthPotion)}
          /\ inv'[P].gold \in {inv[P].gold, inv[P].gold + GOBLIN_KING_GOLD,
                               inv[P].gold + OTHER_GOLD}
          /\ (ent[cur].health > 0 => inv' = inv) ]_vars

C9_Witness ==
    /\ pc = "ret_true" /\ last.op = "victory"
    /\ inv[P].gold > 0 /\ Len(inv[P].items) > 0
    /\ inv[P].items[Len(inv[P].items)] = GreaterHealthPotion

(***************************************************************************)
(* SpecInv : one inventory under test, inv[0].  With pc = "character" it   *)
(* is the inventory Character.__init__ built for the hero (max_slots 10,   *)
(* possibly already holding nine potions) and is used through Character    *)
(* and Game.print_victory_message; with pc = "inventory" it is a bare      *)
(* Inventory(max_slots) used through its own methods.                      *)
(***************************************************************************)
MaxSlots == 2       \* max_slots of a bare Inventory ranges over 1 .. MaxSlots
MaxCalls == 3       \* at most MaxCalls growing calls (add_item, add_gold, reward) per run

Scroll == Item("Scroll")
ItemPool == {HealthPotion, UpperPotion, RustyKey, Scroll}
NamePool == {"Health Potion", "health potion", "Rusty Key", "Scroll", "Elixir"}
GoldAmounts == {0, GOBLIN_KING_GOLD, OTHER_GOLD}
Prefilled == [ i \in 1 .. (DEFAULT_MAX_SLOTS - 1) |-> HealthPotion ]

InitInv ==
    /\ ent = [ i \in {0} |-> Character_init("Hero", PLAYER_INITIAL_HEALTH,
                                            PLAYER_INITIAL_DAMAGE, WEAPON_ROCK_DAMAGE,
                                            DEFAULT_CRIT_CHANCE, DEFAULT_CRIT_MULTIPLIER) ]
    /\ \/ /\ pc = "character"
          /\ \E its \in {<<>>, Prefilled} :
               inv = [ i \in {0} |->
                         [Inventory_init(DEFAULT_MAX_SLOTS) EXCEPT !.items = its] ]
       \/ /\ pc = "inventory"
          /\ \E n \in 1 .. MaxSlots : inv = [ i \in {0} |-> Inventory_init(n) ]
    /\ cur = 0
    /\ last = NoObs
    /\ calls = 0

InvObs(op, before, amount, out, arg) ==
    [NoObs EXCEPT !.op = op, !.before = before, !.total = amount, !.out = out,
                  !.arg = arg]

\* Inventory.add_item / Character.add_item (which delegates to it).
DoAddItem ==
    /\ pc \in {"character", "inventory"}
    /\ calls < MaxCalls
    /\ \E item \in ItemPool :
         LET r == Inventory_add_item(inv[0], item)
         IN /\ inv' = [inv EXCEPT ![0] = r.inv]
            /\ last' = InvObs("add_item", Len(inv[0].items), 0,
                              IF r.ret THEN "True" ELSE "False", item.name)
    /\ calls' = calls + 1
    /\ UNCHANGED <<ent, pc, cur>>

\* Inventory.remove_item / Character.remove_item (which delegates to it).
DoRemoveItem ==
    /\ pc \in {"character", "inventory"}
    /\ \E item_name \in NamePool :
         LET r == Inventory_remove_item(inv[0], item_name)
         IN /\ inv' = [inv EXCEPT ![0] = r.inv]
            /\ last' = InvObs("remove_item", Len(inv[0].items), 0, r.out, item_name)
    /\ UNCHANGED <<ent, pc, cur, calls>>

\* Inventory.use_item
DoInventoryUseItem ==
    /\ pc = "inventory"
    /\ \E item_name \in NamePool :
         LET r == Inventory_use_item(inv[0], item_name)
         IN /\ inv' = [inv EXCEPT ![0] = r.inv]
            /\ last' = InvObs("inventory_use_item", Len(inv[0].items), 0, r.out,
                              item_name)
    /\ UNCHANGED <<ent, pc, cur, calls>>

\* Character.use_item
DoCharacterUseItem ==
    /\ pc = "character"
    /\ \E item_name \in NamePool :
         LET r == Character_use_item(inv[0], item_name)
         IN /\ inv' = [inv EXCEPT ![0] = r.inv]
            /\ last' = InvObs("use_item", Len(inv[0].items), r.heal, r.out, item_name)
    /\ UNCHANGED <<ent, pc, cur, calls>>

\* Inventory.add_gold / Character.add_gold
DoAddGold ==
    /\ pc \in {"character", "inventory"}
    /\ calls < MaxCalls
    /\ \E amount \in GoldAmounts :
         /\ inv' = [inv EXCEPT ![0] = Inventory_add_gold(inv[0], amount)]
         /\ last' = InvObs("add_gold", inv[0].gold, amount, "None", "")
    /\ calls' = calls + 1
    /\ UNCHANGED <<ent, pc, cur>>

\* Inventory.remove_gold / Character.remove_gold
DoRemoveGold ==
    /\ pc \in {"character", "inventory"}
    /\ \E amount \in GoldAmounts :
         LET r == Inventory_remove_gold(inv[0], amount)
         IN /\ inv' = [inv EXCEPT ![0] = r.inv]
            /\ last' = InvObs("remove_gold", inv[0].gold, amount,
                              IF r.ret THEN "True" ELSE "False", "")
    /\ UNCHANGED <<ent, pc, cur, calls>>

\* Game.print_victory_message(enemy) with the hero as self.player.
DoVictoryReward ==
    /\ pc = "character"
    /\ calls < MaxCalls
    /\ \E n \in BossNames :
         LET v == Game_print_victory_message(inv, [ i \in {1} |-> Boss_init(n, 0, 0) ], 1)
         IN /\ inv' = v.inv
            /\ last' = InvObs("victory", Len(inv[0].items), 0, v.out, n)
    /\ calls' = calls + 1
    /\ UNCHANGED <<ent, pc, cur>>

NextInv ==
    \/ DoAddItem
    \/ DoRemoveItem
    \/ DoInventoryUseItem
    \/ DoCharacterUseItem
    \/ DoAddGold
    \/ DoRemoveGold
    \/ DoVictoryReward

SpecInv == InitInv /\ [][NextInv]_vars

(***************************************************************************)
(* Properties of the inventory (checked under SpecInv).                    *)
(***************************************************************************)
\* C10: for every Inventory, len(items) <= max_slots in every reachable
\* state, after any sequence of add_item, remove_item, use_item and
\* victory rewards.
C10_CapacityRespected ==
    \A i \in DOMAIN inv : Len(inv[i].items) <= inv[i].max_slots

\* An add_item (direct or through a victory reward) was refused on a full
\* inventory.
C10_Witness ==
    /\ Len(inv[0].items) = inv[0].max_slots
    /\ \/ last.op = "add_item" /\ last.out = "False"
       \/ last.op = "victory" /\ last.before = DEFAULT_MAX_SLOTS /\ inv[0].gold > 0

C10_WitnessReward ==
    /\ pc = "character"
    /\ Len(inv[0].items) = DEFAULT_MAX_SLOTS
    /\ last.op = "victory" /\ last.before = DEFAULT_MAX_SLOTS /\ inv[0].gold > 0

\* C11: add_item returns True and appends the item at the end (length + 1,
\* earlier items and their order unchanged) exactly when len(items) <
\* max_slots held before the call; otherwise it returns False and leaves
\* items and gold unchanged.  Gold and max_slots are never touched.
C11_AddItem ==
    [][ last'.op = "add_item" =>
          /\ (last'.out = "True") <=> (Len(inv[0].items) < inv[0].max_slots)
          /\ last'.out \in {"True", "False"}
          /\ last'.out = "True" =>
                /\ Len(inv'[0].items) = Len(inv[0].items) + 1
                /\ \A i \in 1 .. Len(inv[0].items) : inv'[0].items[i] = inv[0].items[i]
                /\ inv'[0].items[Len(inv'[0].items)].name = last'.arg
          /\ last'.out = "False" => inv'[0].items = inv[0].items
          /\ inv'[0].gold = inv[0].gold
          /\ inv'[0].max_slots = inv[0].max_slots ]_vars

\* A full inventory of capacity 1 holding gold refused an item.
C11_Witness ==
    /\ last.op = "add_item" /\ last.out = "False"
    /\ inv[0].max_slots = 1 /\ Len(inv[0].items) = 1
    /\ inv[0].gold > 0

\* An item was appended behind a different item.
C11_WitnessAppend ==
    /\ last.op = "add_item" /\ last.out = "True"
    /\ Len(inv[0].items) = 2
    /\ inv[0].items[1] # inv[0].items[2]

\* Indices of the items whose name is exactly item_name.
ExactMatches(items, item_name) ==
    { i \in 1 .. Len(items) : items[i].name = item_name }

\* C12: remove_item(name) removes and returns the first item whose name
\* matches, keeping the order of the others; with no match it returns None
\* and leaves the inventory unchanged; it never aborts with an error,
\* whether the inventory is empty or not.
C12_RemoveItem ==
    [][ last'.op = "remove_item" =>
          LET hits == ExactMatches(inv[0].items, last'.arg)
          IN /\ last'.out # "AttributeError"
             /\ hits = {} => last'.out = "None" /\ inv' = inv
             /\ hits # {} =>
                   \E i \in hits :
                      /\ \A j \in hits : i <= j
                      /\ inv'[0].items = RemoveAt(inv[0].items, i) ]_vars

\* remove_item on a non-empty inventory ended in AttributeError.
C12_Aborted ==
    /\ last.op = "remove_item" /\ last.out = "AttributeError"
    /\ inv[0].items # <<>>

\* C13: remove_gold(amount) returns True exactly when gold >= amount held
\* before the call, and then gold' = gold - amount; when amount > gold it
\* returns False and leaves gold and items unchanged.
C13_RemoveGold ==
    [][ last'.op = "remove_gold" =>
          LET amount == last'.total
          IN /\ (last'.out = "True") <=> (inv[0].gold >= amount)
             /\ last'.out \in {"True", "False"}
             /\ last'.out = "True" => inv'[0].gold = inv[0].gold - amount
             /\ last'.out = "False" => inv'[0].gold = inv[0].gold
             /\ inv'[0].items = inv[0].items ]_vars

\* All the gold held was removed (amount = gold > 0), items kept.
C13_Witness ==
    /\ last.op = "remove_gold" /\ last.out = "True"
    /\ last.total = last.before /\ last.before > 0
    /\ inv[0].gold = 0 /\ inv[0].items # <<>>

\* A removal of more gold than held was refused.
C13_WitnessRefused ==
    /\ last.op = "remove_gold" /\ last.out = "False"
    /\ last.total > last.before /\ last.before > 0
    /\ inv[0].gold = last.before

GoldNonNegative ==
    \A i \in DOMAIN inv : inv[i].gold >= 0

AddGoldExact ==
    [][ last'.op = "add_gold" =>
          /\ inv'[0].gold = inv[0].gold + last'.total
          /\ inv'[0].items = inv[0].items ]_vars

\* C14: gold >= 0 in every reachable state, after any sequence of add_gold
\* (non-negative amounts), remove_gold (non-negative amounts) and victory
\* gold rewards; and add_gold always sets gold' = gold + amount.
C14_Gold == []GoldNonNegative /\ AddGoldExact

\* remove_gold refused an amount larger than the gold held, after gold
\* had been added.
C14_Witness ==
    /\ last.op = "remove_gold" /\ last.out = "False"
    /\ inv[0].gold > 0 /\ last.total > inv[0].gold

\* A victory reward put gold into the inventory.
C14_WitnessReward ==
    /\ last.op = "victory" /\ last.out = "ok" /\ inv[0].gold >= GOBLIN_KING_GOLD

\* Indices of the items whose name equals item_name up to letter case.
FoldedMatches(items, item_name) ==
    { i \in 1 .. Len(items) : lower(items[i].name) = lower(item_name) }

\* The first index of a non-empty set of indices.
First(hits) == CHOOSE i \in hits : \A j \in hits : i <= j

\* C15: Character.use_item on a name held by a Potion removes exactly one
\* matching entry (length - 1, the other entries kept in order) and reports
\* a heal amount equal to that Potion's heal_amount; a second use of the
\* same name, when no other item matches it, reports not-found.
C15_UsePotion ==
    [][ last'.op = "use_item" =>
          LET hits == FoldedMatches(inv[0].items, last'.arg)
          IN /\ (hits # {} /\ inv[0].items[First(hits)].cls = "Potion") =>
                  /\ last'.out = "used"
                  /\ Len(inv'[0].items) = Len(inv[0].items) - 1
                  /\ inv'[0].items = RemoveAt(inv[0].items, First(hits))
                  /\ last'.total = inv[0].items[First(hits)].heal_amount
                  /\ inv'[0].gold = inv[0].gold
             /\ (last.op = "use_item" /\ last.out = "used" /\ last'.arg = last.arg
                    /\ hits = {}) =>
                  last'.out = "not_found" /\ inv' = inv ]_vars

\* The 50-point potion was used out of an inventory holding a key before it
\* and a 30-point potion of the same folded name behind it.
C15_Witness ==
    /\ last.op = "use_item" /\ last.out = "used" /\ last.total = 50
    /\ last.before = 3
    /\ inv[0].items = <<RustyKey, HealthPotion>>

\* The only potion was used: nothing matches the name any more.
C15_WitnessLast ==
    /\ last.op = "use_item" /\ last.out = "used" /\ last.total = 30
    /\ FoldedMatches(inv[0].items, last.arg) = {}
    /\ inv[0].items # <<>>

\* C16: using a Key (or any non-potion Item) through Character.use_item
\* completes normally with an effect description and leaves the inventory
\* unchanged; it does not fail.
C16_UseNonPotion ==
    [][ last'.op = "use_item" =>
          LET hits == FoldedMatches(inv[0].items, last'.arg)
          IN (hits # {} /\ inv[0].items[First(hits)].cls # "Potion") =>
                 last'.out = "used" /\ inv' = inv ]_vars

\* Using a key ended in AttributeError.
C16_Aborted ==
    /\ last.op = "use_item" /\ last.out = "AttributeError"
    /\ last.arg = "Rusty Key"

\* C17: Character.use_item(name) for a name matching no item returns the
\* not-found message and changes nothing (items, gold, health).
C17_UseMissing ==
    [][ (last'.op = "use_item" /\ FoldedMatches(inv[0].items, last'.arg) = {}) =>
              /\ last'.out = "not_found"
              /\ inv' = inv
              /\ ent' = ent ]_vars

\* A name held by no item was asked of an inventory holding items and gold.
C17_Witness ==
    /\ last.op = "use_item" /\ last.out = "not_found" /\ last.arg = "Elixir"
    /\ inv[0].items # <<>> /\ inv[0].gold > 0

(***************************************************************************)
(* SpecLog : a Character and a Boss attacking each other, each call being  *)
(* handed no logger, a working logger or a logger whose log_combat raises. *)
(* last.arg is the logger of the call, last.logged the events the logger   *)
(* received during it, last.out whether the call returned or raised.       *)
(***************************************************************************)
InitLog ==
    /\ \E d0 \in DamageInputs, b0 \in BonusInputs, d1 \in DamageInputs :
          ent = [ i \in {0, 1} |->
                    IF i = 0 THEN Character_init("Hero", MaxHealth, d0, b0,
                                                 BOSS_CRIT_CHANCE, DEFAULT_CRIT_MULTIPLIER)
                             ELSE Boss_init("Test Boss", MaxHealth, d1) ]
    /\ inv = [ i \in {0, 1} |-> Inventory_init(DEFAULT_MAX_SLOTS) ]
    /\ pc = "unit"
    /\ cur = 1
    /\ last = NoObs
    /\ calls = 0

\* a.attack(t, logger) for two distinct entities.
DoAttackLogger ==
    \E a \in DOMAIN ent, t \in DOMAIN ent, r \in Rolls, logger \in Loggers :
      \E r2 \in IF ent[a].boss THEN Rolls ELSE {0} :
        /\ pc = "unit"
        /\ a # t
        /\ LET res == attack(ent, a, t, r, r2, logger)
           IN /\ ent' = res.ent
              /\ last' = [AttackObs(ent, a, t, res) EXCEPT !.arg = logger]
        /\ UNCHANGED <<inv, pc, cur, calls>>

NextLog == DoAttackLogger \/ DoSetHealth

SpecLog == InitLog /\ [][NextLog]_vars

(***************************************************************************)
(* Properties of the logging of attacks (checked under SpecLog).           *)
(***************************************************************************)
\* C18: every attack made with a logger reports exactly one event to the
\* logger, carrying (attacker, defender, total, wasCritical) with total
\* equal to the damage the attack returns; when a Boss's bonus triggers,
\* the bonus is part of that single logged total.
C18_OneEventPerAttack ==
    [][ (last'.op = "attack" /\ last'.arg = "ok") =>
          /\ last'.out = "returned"
          /\ last'.logged = << [who |-> last'.who, tgt |-> last'.tgt,
                                total |-> last'.total, crit |-> last'.crit] >> ]_vars

\* A Boss attack whose bonus triggered handed the logger two events.
C18_LoggedTwice ==
    /\ last.op = "attack" /\ last.arg = "ok" /\ last.proc
    /\ Len(last.logged) = 2
    /\ last.logged[1].total + last.logged[2].total > last.total

\* C19: a failure of the logger during an attack does not abort the attack:
\* the target's health is still reduced by total and the attack still
\* returns (total, wasCritical).
C19_LoggerFailureContained ==
    [][ (last'.op = "attack" /\ last'.arg = "fails") =>
          /\ ent'[last'.tgt].health = Max(last'.before - last'.total, 0)
          /\ last'.out = "returned" ]_vars

\* An attack with a failing logger reduced the target's health and raised.
C19_Raised ==
    /\ last.op = "attack" /\ last.arg = "fails" /\ last.out = "raised"
    /\ ent[last.tgt].health < last.before

(***************************************************************************)
(* Properties of the sequence of boss fights (checked under Spec).         *)
(***************************************************************************)
\* The name and the health a boss of self.bosses is constructed with.
BossListName(b) == IF b = 1 THEN GOBLIN_KING_NAME ELSE DARK_SORCERER_NAME
BossListHealth(b) == IF b = 1 THEN GOBLIN_KING_HEALTH ELSE DARK_SORCERER_HEALTH

\* The bosses behind the current one have not been fought.
LaterBossesUntouched ==
    pc # "setup" =>
       \A b \in (cur + 1) .. 2 :
          ent[b].name = BossListName(b) /\ ent[b].health = BossListHealth(b)

\* Every combat is started on the next boss of the list, the position in
\* the list never goes back, and a combat that did not return true is
\* followed by end_game(False), after which nothing happens.
BossStep ==
    /\ cur' >= cur
    /\ (pc' = "enter") =>
          /\ pc = "battles"
          /\ cur' = cur + 1 /\ cur' <= 2
          /\ ent'[cur'].name = BossListName(cur')
    /\ (cur' # cur) => (pc' = "enter" \/ pc = "setup")
    /\ (pc \in {"ret_false", "ret_none"}) => (pc' = "end_lost" /\ cur' = cur)
    /\ (pc = "end_lost") => (pc' = "end_lost")

\* C20: handle_boss_battles runs the combat loop on the bosses in their
\* list order (Goblin King, then Dark Sorcerer), at most once per boss,
\* and stops at the first loss: after a combat the player lost, no later
\* boss is fought and the run ends as a defeat.
C20_BossOrder == []LaterBossesUntouched /\ [][BossStep]_vars

\* The player lost to the Goblin King: the run ended as a defeat and the
\* Dark Sorcerer was never fought.
C20_Witness ==
    /\ pc = "end_lost" /\ cur = 1
    /\ ent[0].health = 0
    /\ ent[1].health > 0
    /\ ent[2].health = DARK_SORCERER_HEALTH

\* The player beat the Goblin King and then lost to the Dark Sorcerer.
C20_WitnessSecond ==
    /\ pc = "end_lost" /\ cur = 2
    /\ ent[0].health = 0 /\ ent[1].health = 0 /\ ent[2].health > 0

(***************************************************************************)
(* Properties of the result of Game.combat (checked under Spec).           *)
(***************************************************************************)
\* C21: whenever the combat loop ends with the enemy's health <= 0,
\* Game.combat returns True to its caller, and False when it ends with the
\* player's health <= 0, for every boss of the list; so a player who
\* defeats both bosses reaches end_game(True).
C21_CombatResult ==
    [][ (pc = "exit") =>
          /\ (ent[cur].health <= 0) => (pc' = "ret_true")
          /\ (ent[cur].health > 0 /\ ent[P].health <= 0) => (pc' = "ret_false") ]_vars

\* The Dark Sorcerer was beaten and the victory message raised.
C21_VictoryRaised ==
    /\ pc = "raised" /\ last.op = "victory_raised"
    /\ cur = 2 /\ ent[2].health = 0 /\ ent[P].health > 0

\* The overall-victory end of the game.
C21_EndWon == pc = "end_won"

(***************************************************************************)
(* Further properties of attack resolution (checked under SpecAttack).     *)
(***************************************************************************)
\* The effect of one attack step on the target's health: never up, and
\* down by at least min(health, base damage + weapon bonus).
AttackLowers ==
    last'.op = "attack" =>
       /\ ent'[last'.tgt].health <= ent[last'.tgt].health
       /\ ent[last'.tgt].health - ent'[last'.tgt].health
             >= Min(ent[last'.tgt].health, BaseOf(ent[last'.who]))

\* C22: an attack (Character or Boss) never increases the target's health
\* and lowers it by at least min(target.health, attacker base damage +
\* weapon bonus); hence repeated exchanges bring one side to health 0.
C22_AttackLowers == [][AttackLowers]_vars

\* The same for targets whose health is not negative before the attack.
AttackLowersNonNegative ==
    [][ ent[last'.tgt].health >= 0 => AttackLowers ]_vars

\* An attack raised the health of a target built with negative health.
C22_Raised ==
    /\ last.op = "attack" /\ last.before < 0
    /\ ent[last.tgt].health > last.before

\* C23: the total of an attack is zero only if base damage + weapon bonus
\* is zero: an attacker with base damage + weapon bonus >= 1 deals total
\* >= 1 on critical and non-critical attacks alike, so the combat loop's
\* "miss" branch (damage 0) is never taken for such an attacker.
C23_NoMiss ==
    LastIsAttack =>
       /\ (BaseOf(Attacker) >= 1) => (last.total >= 1)
       /\ (last.total = 0) => (BaseOf(Attacker) = 0)

\* A critical hit of an attacker with base damage + weapon bonus 1 dealt 1.
C23_Witness ==
    /\ LastIsAttack /\ last.crit /\ ~Attacker.boss
    /\ BaseOf(Attacker) = 1 /\ last.total = 1

\* An attacker without damage and weapon bonus dealt 0.
C23_WitnessZero ==
    /\ LastIsAttack /\ BaseOf(Attacker) = 0 /\ last.total = 0

(***************************************************************************)
(* Properties of item use in combat (checked under Spec and SpecCombat).   *)
(***************************************************************************)
\* C24: using a Potion during combat (handle_item_usage) never lowers the
\* player's health: for every health h the player can have in the game,
\* the initial 110 included, and every potion, health after use is >= h.
C24_PotionNeverLowers ==
    [][ last'.op = "use_item" => ent'[P].health >= ent[P].health ]_vars

\* The Health Potion was used at full initial health and left the player
\* below it.
C24_Lowered ==
    /\ last.op = "use_item" /\ last.before = PLAYER_INITIAL_HEALTH
    /\ ent[P].health < PLAYER_INITIAL_HEALTH

\* C25: in handle_item_usage the item the player selects by index is the
\* item that is used and consumed: after selecting a Potion exactly that
\* list entry is removed and the health gained is that potion's
\* heal_amount (up to the cap), also when several items share a name up to
\* letter case.
C25_SelectedItemConsumed ==
    [][ (last'.op = "use_item" /\ inv[P].items[last'.tgt].cls = "Potion") =>
          /\ inv'[P].items = RemoveAt(inv[P].items, last'.tgt)
          /\ ent'[P].health =
                Min(ent[P].health + inv[P].items[last'.tgt].heal_amount, HEAL_CAP) ]_vars

\* The second of two potions sharing a name up to case was selected; the
\* first one was consumed and the second one is still held.
C25_WrongEntry ==
    /\ last.op = "use_item" /\ last.tgt = 2 /\ last.total = 50
    /\ inv[P].items = <<UpperPotion>>

(***************************************************************************)
(* Properties of the outcome of Game.combat (checked under SpecCombat).    *)
(***************************************************************************)
\* Game.combat is entered with both entities at positive health.
PositiveEntry == pc = "enter" /\ ent[P].health > 0 /\ ent[cur].health > 0

\* The loop has ended: the code after it, or the value returned.
CombatEnded == pc \in {"exit", "ret_true", "ret_false", "ret_none"}

\* The two outcomes as the code after the loop tests them.
Won == CombatEnded /\ ent[cur].health <= 0
Lost == CombatEnded /\ ent[P].health <= 0

OutcomeExclusive ==
    CombatEnded =>
       /\ (ent[cur].health = 0) # (ent[P].health = 0)
       /\ ~(Won /\ Lost)
       /\ Won <=> (ent[cur].health = 0 /\ ent[P].health > 0)
       /\ Lost <=> (ent[P].health = 0 /\ ent[cur].health > 0)
       /\ (pc = "ret_true") => Won
       /\ (pc = "ret_false") => Lost
       /\ pc # "ret_none"

\* C26: when Game.combat is entered with both entities at positive health,
\* at the moment it ends exactly one of the two has health 0: Won and Lost
\* are mutually exclusive, Won holds iff the enemy's health is 0 and the
\* player's is > 0, Lost holds iff the player's health is 0 and the
\* enemy's is > 0.
C26_ExactlyOneDown == PositiveEntry => []OutcomeExclusive

\* The loop ended by the enemy's attack bringing the player to 0.
C26_Witness ==
    /\ pc = "exit" /\ Lost /\ ~Won
    /\ LastIsAttack /\ last.who = cur /\ last.before > 0
    /\ ent[cur].health > 0

\* The loop ended by the player's killing blow.
C26_WitnessWon ==
    /\ pc = "ret_true" /\ Won /\ ~Lost
    /\ ent[P].health > 0 /\ ent[cur].health = 0

(***************************************************************************)
(* Frame of an attack (checked under SpecCombat and SpecAttack).           *)
(***************************************************************************)
\* C27: attack(target) with the attacker distinct from the target changes
\* only the target's health: the attacker's health, base damage, weapon
\* bonus and critical-hit parameters, the target's other fields and the
\* inventories (items and gold) of both are unchanged, for Character and
\* Boss attacks alike.
C27_AttackFrame ==
    [][ last'.op = "attack" =>
          /\ last'.who # last'.tgt
          /\ DOMAIN ent' = DOMAIN ent
          /\ \A e \in DOMAIN ent : e # last'.tgt => ent'[e] = ent[e]
          /\ ent'[last'.tgt] = [ent[last'.tgt] EXCEPT !.health = ent'[last'.tgt].health]
          /\ inv' = inv ]_vars

\* A Boss's critical attack with bonus hit a player who holds items; the
\* Boss is itself wounded.
C27_Witness ==
    /\ LastIsAttack /\ last.who = cur /\ last.tgt = P /\ last.crit /\ last.proc
    /\ ent[P].health < last.before
    /\ ent[cur].health > 0 /\ ent[cur].health < MaxHealth
    /\ inv[P].items # <<>>

\* A Character's critical attack lowered a Boss's health.
C27_WitnessCharacter ==
    /\ LastIsAttack /\ last.who = P /\ ~ent[P].boss /\ last.crit
    /\ ent[cur].health < last.before
    /\ inv[P].items # <<>>

(***************************************************************************)
(* SpecCrit : a Character built from arbitrary crit arguments, holding a   *)
(* potion and a key, on which attack, item and gold operations are called  *)
(* in any order (entity 1 is a Boss to attack and be attacked by).         *)
(***************************************************************************)
CritHealth == 2     \* health of both entities in SpecCrit

InitCrit ==
    /\ \E d0 \in DamageInputs, b0 \in BonusInputs,
          cc \in CritChanceInputs, cm \in CritMultiplierInputs :
          ent = [ i \in {0, 1} |->
                    IF i = 0 THEN Character_init("Hero", CritHealth, d0, b0, cc, cm)
                             ELSE Boss_init("Test Boss", CritHealth, MaxDamage) ]
    /\ inv = [ i \in {0, 1} |->
                IF i = 0
                THEN [Inventory_init(DEFAULT_MAX_SLOTS) EXCEPT
                        !.items = <<HealthPotion, RustyKey>>]
                ELSE Inventory_init(DEFAULT_MAX_SLOTS) ]
    /\ pc = "character"
    /\ cur = 1
    /\ last = NoObs
    /\ calls = 0

NextCrit ==
    \/ DoAttack
    \/ DoCharacterUseItem
    \/ DoAddGold
    \/ DoRemoveGold

SpecCrit == InitCrit /\ [][NextCrit]_vars

\* The stored crit parameters are in range: chance in [0.0, 1.0],
\* multiplier >= 1.0.
CritStored ==
    \A e \in DOMAIN ent :
       /\ ent[e].crit_chance >= 0 /\ ent[e].crit_chance <= 20
       /\ ent[e].crit_multiplier >= 2

\* No step changes them.
CritKept ==
    [][ \A e \in DOMAIN ent :
           /\ ent'[e].crit_chance = ent[e].crit_chance
           /\ ent'[e].crit_multiplier = ent[e].crit_multiplier ]_vars

\* A critical attack deals at least the attacker's non-critical damage.
CritNotLess ==
    (LastIsAttack /\ last.crit) => (last.total >= BaseOf(Attacker))

\* C28: for any crit_chance and crit_multiplier passed to the Character
\* constructor the stored critChance lies in [0.0, 1.0] and the stored
\* critMultiplier is >= 1.0, no attack, item or gold operation changes
\* them, and so a critical attack never deals less than the same
\* attacker's non-critical attack.
C28_CritParameters == [](CritStored /\ CritNotLess) /\ CritKept

\* A hero built with crit chance 1.05 and multiplier 0.5 (stored as 1.0 and
\* 1.0) made a critical attack after using the potion and receiving gold.
C28_Witness ==
    /\ LastIsAttack /\ last.who = 0 /\ last.crit
    /\ Attacker.crit_chance = 20 /\ Attacker.crit_multiplier = 2
    /\ BaseOf(Attacker) > 0 /\ last.total = BaseOf(Attacker)
    /\ inv[0].items = <<RustyKey>> /\ inv[0].gold > 0

(***************************************************************************)
(* Item lookup by name (checked under SpecInv).                            *)
(***************************************************************************)
\* Character.use_item finds an item under item_name.
CharacterFinds(I, item_name) == Character_use_item(I, item_name).out # "not_found"

\* Inventory.remove_item / Inventory.use_item find an item under item_name:
\* the call neither reports a missing item nor raises.
InventoryFinds(I, item_name) ==
    /\ Inventory_remove_item(I, item_name).out \notin {"None", "AttributeError"}
    /\ Inventory_use_item(I, item_name).out \notin {"not_found", "AttributeError"}

\* C29: item lookup by name follows one case rule across operations: for
\* every inventory and every name, Character.use_item finds an item under
\* that name iff Inventory.remove_item (and Inventory.use_item) would find
\* the same item under that name.
C29_ConsistentLookup ==
    [][ last'.op = "use_item" =>
          /\ (last'.out # "not_found") <=> CharacterFinds(inv[0], last'.arg)
          /\ CharacterFinds(inv[0], last'.arg) <=> InventoryFinds(inv[0], last'.arg) ]_vars

\* Character.use_item found and used the potion under a lower-case name,
\* which no item bears exactly.
C29_FoundByFoldedName ==
    /\ last.op = "use_item" /\ last.out = "used" /\ last.arg = "health potion"
    /\ last.total = 30

====
